---- MODULE Spec2Model ----
(***************************************************************************)
(* Model of media_release_informer.py: the Radarr/Sonarr clients, the      *)
(* release-date matching done inside them, the Discord report composer     *)
(* and the main driver.                                                    *)
(*                                                                         *)
(* Strings that carry dates are sequences of tokens.  A token stands for   *)
(* a piece of text:                                                        *)
(*   date d : the ten characters "2024-03-dd"                              *)
(*   T      : the letter T                                                 *)
(*   time m : "hh:mm:00", m minutes after midnight                         *)
(*   Z      : the letter Z                                                 *)
(*   junk   : some text holding no T, no Z and no date                     *)
(* The empty sequence stands for a missing key, None and "" alike: the     *)
(* code tests all three with the same truthiness checks.                   *)
(* Calendar days are days of March 2024; instants are minutes since        *)
(* 2024-03-00T00:00 UTC.                                                   *)
(***************************************************************************)
EXTENDS Integers, Sequences, FiniteSets, TLC

\* ------------------------------------------------------------------ bounds
\* Longest list an upstream endpoint answers with.
MaxItems == 1
\* Last calendar day (of March 2024) that occurs in upstream data.
LastDay == 6

Days == 5..LastDay
\* Times of day that occur in upstream data: 02:00 and 23:30.
Times == {120, 1410}
\* UTC offsets (minutes) the host's local zone may have; datetime.astimezone
\* reads a naive datetime in that zone.
SysOffsets == {-300, 0}

\* ------------------------------------------------------------------ text
DateTok(d) == [k |-> "date", v |-> d]
TTok == [k |-> "T", v |-> 0]
TimeTok(m) == [k |-> "time", v |-> m]
ZTok == [k |-> "Z", v |-> 0]
JunkTok == [k |-> "junk", v |-> 0]

Absent == << >>

\* `date_str` is truthy
Truthy(s) == Len(s) > 0
\* `c in date_str` for the single letters T and Z
HasTok(s, k) == \E i \in 1..Len(s) : s[i].k = k
\* Mutant of Contains: only a text that starts with the date holds it.
ContainsAtStart(s, t) == Len(s) >= Len(t) /\ SubSeq(s, 1, Len(t)) = t

\* `today in date_str`
Contains(s, t) == \E i \in 1..Len(s) : \E j \in i..Len(s) : SubSeq(s, i, j) = t
\* `date_str.startswith(today)`
StartsWith(s, t) == Len(s) >= Len(t) /\ SubSeq(s, 1, Len(t)) = t
\* `date_str.split('T')[0]`
RECURSIVE SplitT0(_)
SplitT0(s) ==
    IF s = << >> \/ Head(s).k = "T" THEN << >>
    ELSE <<Head(s)>> \o SplitT0(Tail(s))

\* datetime.strftime('%Y-%m-%d') of a calendar day
Strftime(day) == <<DateTok(day)>>

\* datetime.strptime(s, '%Y-%m-%d') succeeds
StrptimeOk(s) == Len(s) = 1 /\ s[1].k = "date"

\* datetime.fromisoformat(s.replace('Z', '+00:00')) when s holds a Z, else
\* datetime.fromisoformat(s): the parsed day and minute, and whether the
\* value carries an offset (aware) or not (naive).
FromIso(s) ==
    IF Len(s) = 1 /\ s[1].k = "date"
    THEN [ok |-> TRUE, day |-> s[1].v, min |-> 0, aware |-> FALSE]
    ELSE IF Len(s) = 3 /\ s[1].k = "date" /\ s[2].k = "T" /\ s[3].k = "time"
    THEN [ok |-> TRUE, day |-> s[1].v, min |-> s[3].v, aware |-> FALSE]
    ELSE IF Len(s) = 4 /\ s[1].k = "date" /\ s[2].k = "T" /\ s[3].k = "time"
            /\ s[4].k = "Z"
    THEN [ok |-> TRUE, day |-> s[1].v, min |-> s[3].v, aware |-> TRUE]
    ELSE [ok |-> FALSE, day |-> 0, min |-> 0, aware |-> FALSE]

\* ------------------------------------------------------------------ time zone
\* US/Eastern: UTC-5 until 2024-03-10T07:00Z, UTC-4 from then on.
DstStart == (10 * 1440) + (7 * 60)
TIMEZONE(instant) == IF instant >= DstStart THEN -240 ELSE -300

\* The UTC instant of a parsed datetime; a naive one is read in the host zone.
Instant(p, sys) == (p.day * 1440) + p.min - (IF p.aware THEN 0 ELSE sys)

\* Mutant of AsTimezone: the UTC day and minute, no shift to the zone.
AsTimezoneNoShift(p, sys) == [day |-> p.day, min |-> p.min]

\* date_obj.astimezone(Config.TIMEZONE): local day and minute of the day
AsTimezone(p, sys) ==
    LET local == Instant(p, sys) + TIMEZONE(Instant(p, sys))
    IN  [day |-> local \div 1440, min |-> local % 1440]

\* ------------------------------------------------------------------ logging
LogEntry(level, msg) == [level |-> level, msg |-> msg]

\* ------------------------------------------------------------------ upstream
\* What a GET can end in: a 2xx answer with a body, an answer whose status
\* makes raise_for_status raise, or no answer at all.
HttpKinds == {"ok", "http_error", "transport_error"}
\* requests.exceptions.RequestException covers both failures.
IsRequestException(kind) == kind \in {"http_error", "transport_error"}

\* ------------------------------------------------------------------ RadarrAPI
\* Mutant of get_movies: no except clause, a failed request raises.
get_moviesUncaught(resp) ==
    [raised |-> IsRequestException(resp.kind),
     value |-> IF IsRequestException(resp.kind) THEN << >>
               ELSE SelectSeq(resp.body, LAMBDA m : m.monitored),
     log |-> << >>]

\* RadarrAPI.get_movies: the list it returns, what it logs, and whether an
\* exception leaves it.
get_movies(resp) ==
    IF IsRequestException(resp.kind)
    THEN [raised |-> FALSE, value |-> << >>,
          log |-> <<LogEntry("error", "Error fetching movies")>>]
    ELSE [raised |-> FALSE,
          value |-> SelectSeq(resp.body, LAMBDA m : m.monitored),
          log |-> << >>]

\* RadarrAPI._extract_date: the text before the first T (or the whole text)
\* when strptime accepts it, else None.
RadarrExtractDate(s) ==
    IF ~Truthy(s) THEN Absent
    ELSE LET date_part == IF HasTok(s, "T") THEN SplitT0(s) ELSE s
         IN  IF StrptimeOk(date_part) THEN date_part ELSE Absent

\* RadarrAPI._extract_date logs a warning when a present value fails to parse.
RadarrExtractWarns(s) ==
    IF Truthy(s) /\ RadarrExtractDate(s) = Absent
    THEN <<LogEntry("warning", "Could not parse date")>> ELSE << >>

MovieFields(movie) ==
    <<movie.digitalRelease, movie.physicalRelease, movie.inCinemas>>

\* The body of the loop of RadarrAPI.get_todays_releases: is_today for a movie.
MovieIsToday(movie, today) ==
    LET exact == \E i \in 1..3 : RadarrExtractDate(MovieFields(movie)[i]) = today
        contains == \E i \in 1..3 :
            Truthy(MovieFields(movie)[i]) /\ Contains(MovieFields(movie)[i], today)
    IN  IF exact THEN TRUE ELSE contains

RECURSIVE MovieWarns(_)
MovieWarns(movies) ==
    IF movies = << >> THEN << >>
    ELSE RadarrExtractWarns(Head(movies).digitalRelease)
         \o RadarrExtractWarns(Head(movies).physicalRelease)
         \o RadarrExtractWarns(Head(movies).inCinemas)
         \o MovieWarns(Tail(movies))

\* RadarrAPI.get_todays_releases
get_todays_releases(resp, today) ==
    LET got == get_movies(resp)
        todays_releases == SelectSeq(got.value, LAMBDA m : MovieIsToday(m, today))
    IN  IF got.raised THEN [raised |-> TRUE, value |-> << >>, log |-> got.log]
        ELSE [raised |-> FALSE, value |-> todays_releases,
              log |-> got.log \o MovieWarns(got.value)
                      \o <<LogEntry("info", "Found movies releasing today")>>]

\* ------------------------------------------------------------------ SonarrAPI
None == << >>
Some(x) == <<x>>

\* The condition of the enrichment loop of SonarrAPI.get_calendar.
NeedsLookup(item) ==
    item.seriesId /\ ~(item.series.dict /\ item.series.title # None)

\* The answer of GET /api/v3/series/{id}.
LookedUpSeries == [dict |-> TRUE, title |-> Some("Looked Up Show")]
LookupOutcomes == {"ok", "not_200", "transport_error"}

\* One pass of the enrichment loop: item['series'] is replaced only by a 200.
Enrich(item, outcome) ==
    IF NeedsLookup(item) /\ outcome = "ok"
    THEN [item EXCEPT !.series = LookedUpSeries]
    ELSE item

\* SonarrAPI.get_calendar
get_calendar(resp, lookups) ==
    IF IsRequestException(resp.kind)
    THEN [raised |-> FALSE, value |-> << >>,
          log |-> <<LogEntry("error", "Error fetching calendar")>>]
    ELSE [raised |-> FALSE,
          value |-> [i \in 1..Len(resp.body) |-> Enrich(resp.body[i], lookups[i])],
          log |-> << >>]

\* The body of the loop of SonarrAPI.get_todays_episodes: is_today for an
\* episode.
EpisodeIsToday(episode, today, sys) ==
    LET air_date_utc == episode.airDateUtc
        air_date == episode.airDate
        p == FromIso(air_date_utc)
        first ==
            IF Truthy(air_date) /\ StartsWith(air_date, today) THEN TRUE
            ELSE IF Truthy(air_date_utc)
            THEN IF p.ok THEN Strftime(AsTimezone(p, sys).day) = today
                 ELSE StartsWith(air_date_utc, today)
            ELSE FALSE
    IN  IF first THEN TRUE
        ELSE (Truthy(air_date) /\ Contains(air_date, today))
             \/ (Truthy(air_date_utc) /\ Contains(air_date_utc, today))

\* SonarrAPI.get_todays_episodes
get_todays_episodes(resp, lookups, today, sys) ==
    LET got == get_calendar(resp, lookups)
        todays_episodes ==
            SelectSeq(got.value, LAMBDA e : EpisodeIsToday(e, today, sys))
    IN  IF got.raised THEN [raised |-> TRUE, value |-> << >>, log |-> got.log]
        ELSE [raised |-> FALSE, value |-> todays_episodes,
              log |-> got.log
                      \o <<LogEntry("info", "Found episodes airing today")>>]

\* ------------------------------------------------------------------ DiscordNotifier
\* Mutant of DiscordExtractDate: the date part as written, with no
\* conversion to the zone.
DiscordExtractDateUtc(s, sys) == RadarrExtractDate(s)

\* DiscordNotifier._extract_date: a value holding a T is parsed as a datetime
\* and converted to Config.TIMEZONE; any other value must be a bare date.
DiscordExtractDate(s, sys) ==
    IF ~Truthy(s) THEN None
    ELSE IF HasTok(s, "T")
    THEN IF FromIso(s).ok THEN Strftime(AsTimezone(FromIso(s), sys).day) ELSE None
    ELSE IF StrptimeOk(s) THEN s ELSE None

\* DiscordNotifier._extract_time: the local minute of the day that
\* strftime('%I:%M %p EST') prints, or None.
DiscordExtractTime(s, sys) ==
    IF ~Truthy(s) \/ ~HasTok(s, "T") THEN None
    ELSE IF FromIso(s).ok THEN Some(AsTimezone(FromIso(s), sys).min) ELSE None

\* ', '.join(release_types)
RECURSIVE Join(_)
Join(parts) ==
    IF Len(parts) <= 1 THEN parts
    ELSE <<Head(parts), ", ">> \o Join(Tail(parts))

ReleaseLabels == <<"Digital", "Physical", "Cinema">>

\* release_types after the three checks of the movie loop, in their order.
ReleaseTypes(movie, today_str, sys) ==
    LET Check(i) ==
            IF DiscordExtractDate(MovieFields(movie)[i], sys) = today_str
            THEN <<ReleaseLabels[i]>> ELSE << >>
    IN  Check(1) \o Check(2) \o Check(3)

\* release_type
ReleaseType(movie, today_str, sys) ==
    LET release_types == ReleaseTypes(movie, today_str, sys)
    IN  IF release_types # << >> THEN Join(release_types) \o <<" Release">>
        ELSE <<"Released Today">>

\* release_time: the time of the first matching field that yields one.
ReleaseTime(movie, today_str, sys) ==
    LET Time(i) ==
            LET f == MovieFields(movie)[i]
            IN  IF DiscordExtractDate(f, sys) = today_str /\ Truthy(f) /\ HasTok(f, "T")
                THEN DiscordExtractTime(f, sys) ELSE None
    IN  IF Time(1) # None THEN Time(1)
        ELSE IF Time(2) # None THEN Time(2)
        ELSE Time(3)

\* One line of the message.
Line(kind, name, label, time, src) ==
    [kind |-> kind, name |-> name, label |-> label, time |-> time, src |-> src]

\* "- **{title}** ({year}) - {release_type}{release_time}"
MovieLine(movie, k, today_str, sys) ==
    Line("movie", "", ReleaseType(movie, today_str, sys),
         ReleaseTime(movie, today_str, sys), k)

\* The section of one instance of movie_releases.
MovieSection(entry, today_str, sys) ==
    IF entry.items = << >> THEN << >>
    ELSE <<Line("section", entry.name, << >>, None, 0)>>
         \o [k \in 1..Len(entry.items) |->
                MovieLine(entry.items[k], k, today_str, sys)]

UnknownSeries == "Unknown Series"

\* series_title of an episode, as the grouping loop resolves it.
SeriesTitleOf(episode) ==
    IF episode.series.dict
    THEN IF episode.series.title # None THEN episode.series.title[1]
         ELSE UnknownSeries
    ELSE IF episode.seriesTitle # None THEN episode.seriesTitle[1]
    ELSE UnknownSeries

\* The grouping loop warns only in its last branch.
SeriesTitleWarns(episode) ==
    IF ~episode.series.dict /\ episode.seriesTitle = None
    THEN <<LogEntry("warning", "Could not find series title")>> ELSE << >>

\* air_time of an episode line
AirTime(episode, sys) ==
    IF Truthy(episode.airDateUtc) /\ FromIso(episode.airDateUtc).ok
    THEN Some(AsTimezone(FromIso(episode.airDateUtc), sys).min) ELSE None

\* The keys of series_episodes in insertion order.
RECURSIVE SeriesKeys(_, _)
SeriesKeys(episodes, seen) ==
    IF episodes = << >> THEN << >>
    ELSE LET t == SeriesTitleOf(Head(episodes))
         IN  IF t \in seen THEN SeriesKeys(Tail(episodes), seen)
             ELSE <<t>> \o SeriesKeys(Tail(episodes), seen \cup {t})

\* The lines of the episodes, from the k-th on, grouped under `title`.
RECURSIVE EpisodeLines(_, _, _, _)
EpisodeLines(episodes, k, title, sys) ==
    IF k > Len(episodes) THEN << >>
    ELSE (IF SeriesTitleOf(episodes[k]) = title
          THEN <<Line("episode", "", << >>, AirTime(episodes[k], sys), k)>>
          ELSE << >>)
         \o EpisodeLines(episodes, k + 1, title, sys)

RECURSIVE SeriesBlocks(_, _, _)
SeriesBlocks(keys, episodes, sys) ==
    IF keys = << >> THEN << >>
    ELSE <<Line("series", Head(keys), << >>, None, 0)>>
         \o EpisodeLines(episodes, 1, Head(keys), sys)
         \o SeriesBlocks(Tail(keys), episodes, sys)

RECURSIVE EpisodeWarns(_)
EpisodeWarns(episodes) ==
    IF episodes = << >> THEN << >>
    ELSE SeriesTitleWarns(Head(episodes)) \o EpisodeWarns(Tail(episodes))

\* The section of one instance of tv_releases.
EpisodeSection(entry, sys) ==
    IF entry.items = << >> THEN << >>
    ELSE <<Line("section", entry.name, << >>, None, 0)>>
         \o SeriesBlocks(SeriesKeys(entry.items, {}), entry.items, sys)

RECURSIVE MovieSections(_, _, _)
MovieSections(releases, today_str, sys) ==
    IF releases = << >> THEN << >>
    ELSE MovieSection(Head(releases), today_str, sys)
         \o MovieSections(Tail(releases), today_str, sys)

RECURSIVE EpisodeSections(_, _)
EpisodeSections(releases, sys) ==
    IF releases = << >> THEN << >>
    ELSE EpisodeSection(Head(releases), sys) \o EpisodeSections(Tail(releases), sys)

RECURSIVE SectionWarns(_)
SectionWarns(releases) ==
    IF releases = << >> THEN << >>
    ELSE EpisodeWarns(Head(releases).items) \o SectionWarns(Tail(releases))

\* "No monitored content is being released today."
SentinelLine == Line("sentinel", "", << >>, None, 0)

\* Mutant of NoReleases: only the movie lists are looked at.
NoMovieReleases(movie_rel, tv_rel) ==
    ~\E k \in 1..Len(movie_rel) : movie_rel[k].items # << >>

\* The test that guards the sentinel.
NoReleases(movie_rel, tv_rel) ==
    /\ ~\E k \in 1..Len(movie_rel) : movie_rel[k].items # << >>
    /\ ~\E k \in 1..Len(tv_rel) : tv_rel[k].items # << >>

\* The message send_notification builds.
BuildMessage(movie_rel, tv_rel, today_str, sys) ==
    <<Line("title", "Media Releases for", today_str, None, 0)>>
    \o MovieSections(movie_rel, today_str, sys)
    \o EpisodeSections(tv_rel, sys)
    \o (IF NoReleases(movie_rel, tv_rel) THEN <<SentinelLine>> ELSE << >>)

\* What the POST can end in: no answer, or an answer with a status code.
StatusCodes == {204, 304, 404}
PostOutcomes ==
    {[kind |-> "transport_error", status |-> 0]}
    \cup {[kind |-> "response", status |-> c] : c \in StatusCodes}

\* response.raise_for_status() raises for the 4xx and 5xx codes.
RaiseForStatus(status) == 400 <= status /\ status < 600

\* The try block at the end of send_notification.
Deliver(outcome) ==
    IF outcome.kind = "transport_error" \/ RaiseForStatus(outcome.status)
    THEN [raised |-> FALSE, value |-> FALSE,
          log |-> <<LogEntry("error", "Error sending notification")>>]
    ELSE [raised |-> FALSE, value |-> TRUE,
          log |-> <<LogEntry("info", "Notification sent successfully!")>>]

\* DiscordNotifier.send_notification
send_notification(movie_rel, tv_rel, today_str, sys, outcome) ==
    LET sent == Deliver(outcome)
    IN  [raised |-> sent.raised, value |-> sent.value,
         message |-> BuildMessage(movie_rel, tv_rel, today_str, sys),
         log |-> SectionWarns(tv_rel) \o sent.log]

\* ------------------------------------------------------------------ state
VARIABLES
    webhook,         \* Config.DISCORD_WEBHOOK_URL is non-empty
    radarr_cfg,      \* Config.RADARR_INSTANCES: name, url and api_key non-empty
    sonarr_cfg,      \* Config.SONARR_INSTANCES
    today,           \* datetime.now(Config.TIMEZONE) as a calendar day
    sys,             \* UTC offset of the host's local zone
    library,         \* what the upstream services hold: movies and episodes
    net,             \* the ways a GET can end in this run
    hook,            \* the ways the webhook POST can end in this run
    pc,              \* position of main()
    i,               \* index of the instance loop
    movie_releases,  \* main's dict, in insertion order
    tv_releases,     \* main's dict, in insertion order
    message,         \* payload["content"], as lines
    success,         \* what send_notification returned
    log,             \* what the logger received
    calls            \* the HTTP requests issued, in order

vars ==
    <<webhook, radarr_cfg, sonarr_cfg, today, sys, library, net, hook, pc, i,
      movie_releases, tv_releases, message, success, log, calls>>

env == <<webhook, radarr_cfg, sonarr_cfg, today, sys, library, net, hook>>

\* today as strftime('%Y-%m-%d') prints it
TodayStr == Strftime(today)

\* ------------------------------------------------------------------ inputs
Instance(name, url, api_key) == [name |-> name, url |-> url, api_key |-> api_key]
Settings == {<<TRUE, TRUE>>, <<FALSE, TRUE>>, <<TRUE, FALSE>>}

Movie(monitored, digital, physical, cinema) ==
    [monitored |-> monitored, digitalRelease |-> digital,
     physicalRelease |-> physical, inCinemas |-> cinema]

Episode(monitored, air_date, air_date_utc, series, series_title, series_id) ==
    [monitored |-> monitored, airDate |-> air_date, airDateUtc |-> air_date_utc,
     series |-> series, seriesTitle |-> series_title, seriesId |-> series_id]

NoSeries == [dict |-> FALSE, title |-> None]
UntitledSeries == [dict |-> TRUE, title |-> None]
TitledSeries == [dict |-> TRUE, title |-> Some("Nested Show")]

\* The date strings of one day: a bare date, UTC timestamps, a timestamp
\* without offset, and three malformed texts that hold the date.
DayStrings(d) ==
    {<<DateTok(d)>>, <<DateTok(d), TTok, TimeTok(1410)>>,
     <<JunkTok, DateTok(d)>>, <<DateTok(d), JunkTok>>, <<DateTok(d), TTok, JunkTok>>}
    \cup {<<DateTok(d), TTok, TimeTok(m), ZTok>> : m \in Times}

DateStrings == {Absent, <<JunkTok>>} \cup UNION {DayStrings(d) : d \in Days}

\* Movies with at most two date fields, any of them any date string.
WideMovies ==
    {Movie(TRUE, a, b, c) : a \in DateStrings, b \in DateStrings, c \in DateStrings}
    \ {Movie(TRUE, a, b, c) : a \in DateStrings \ {Absent},
                              b \in DateStrings \ {Absent},
                              c \in DateStrings \ {Absent}}

\* Episodes with any two date strings, and episodes of each shape of series
\* data.
WideEpisodes ==
    {Episode(TRUE, a, u, TitledSeries, None, TRUE) :
        a \in DateStrings, u \in DateStrings}
    \cup {Episode(TRUE, <<DateTok(5)>>, Absent, sr, st, FALSE) :
            sr \in {NoSeries, UntitledSeries, TitledSeries},
            st \in {None, Some("Flat Show")}}

\* The small library of a full run: a monitored and an unmonitored movie, an
\* unmonitored episode whose series has to be looked up, and a monitored
\* episode with a nested series object that has no title.
RunMovies ==
    {Movie(m, <<DateTok(5)>>, Absent, Absent) : m \in BOOLEAN}

RunEpisodes ==
    {Episode(FALSE, <<DateTok(5)>>, Absent, NoSeries, None, TRUE),
     Episode(TRUE, <<DateTok(5)>>, <<DateTok(5), TTok, TimeTok(1410), ZTok>>,
             UntitledSeries, Some("Flat Show"), FALSE)}

\* The lists of at most MaxItems items of a set.
Bodies(S) == UNION {[1..n -> S] : n \in 0..MaxItems}

\* ------------------------------------------------------------------ main
\* `if instance["url"] and instance["api_key"]`
Configured(instance) == instance.url /\ instance.api_key

\* Mutant of WebhookMissing: the check of the webhook URL is left out.
WebhookNeverMissing == FALSE

\* `if not Config.DISCORD_WEBHOOK_URL`
WebhookMissing == ~webhook

Entry(name, items) == [name |-> name, items |-> items]
Call(op, inst, kind, n, due) ==
    [op |-> op, inst |-> inst, kind |-> kind, n |-> n, due |-> due]

\* History only: a request with the length of the answered list (the status
\* code for the POST) and the number of its monitored items that carry today's bare date.
DueMovies(body) ==
    Cardinality({k \in 1..Len(body) :
        body[k].monitored /\ body[k].digitalRelease = TodayStr})
DueEpisodes(body) ==
    Cardinality({k \in 1..Len(body) :
        body[k].monitored /\ body[k].airDate = TodayStr})

Init0 ==
    /\ pc = "start"
    /\ i = 1
    /\ movie_releases = << >>
    /\ tv_releases = << >>
    /\ message = << >>
    /\ success = None
    /\ log = << >>
    /\ calls = << >>

\* A run of the program on 2024-03-05 on a host in UTC: any configuration, a small library
\* without naive timestamps, a network and a webhook that may fail.
Init ==
    /\ webhook \in BOOLEAN
    /\ \E a \in Settings, b \in Settings :
         radarr_cfg = <<Instance("Movies 4K", a[1], a[2]), Instance("Movies", b[1], b[2])>>
    /\ \E a \in Settings, b \in Settings :
         sonarr_cfg = <<Instance("Anime", a[1], a[2]), Instance("TV Shows", b[1], b[2])>>
    /\ today = 5
    /\ sys = 0
    /\ library = [movies |-> RunMovies, episodes |-> RunEpisodes]
    /\ net = HttpKinds
    /\ hook = PostOutcomes
    /\ Init0

\* main() up to the first loop
Start ==
    /\ pc = "start"
    /\ log' = log \o <<LogEntry("info", "Starting media release notifier...")>>
              \o (IF WebhookMissing
                  THEN <<LogEntry("error", "Discord webhook URL is not configured!")>>
                  ELSE << >>)
    /\ pc' = IF WebhookMissing THEN "done" ELSE "radarr"
    /\ UNCHANGED <<env, i, movie_releases, tv_releases, message, success, calls>>

\* Where main() goes after the i-th instance of a loop over n instances.
NextPc(here, then, n) == IF i = n THEN then ELSE here

\* Mutant of NextI: the loop does not move on to the next instance.
NextIRepeat(n) == IF i = n THEN 1 ELSE i
NextI(n) == IF i = n THEN 1 ELSE i + 1

\* One pass of the Radarr loop for a configured instance.
RadarrFetch ==
    /\ pc = "radarr"
    /\ Configured(radarr_cfg[i])
    /\ \E kind \in net, body \in Bodies(library.movies) :
         /\ kind = "ok" \/ body = << >>
         /\ \E r \in {get_todays_releases([kind |-> kind, body |-> body], TodayStr)} :
                /\ calls' = Append(calls,
                       Call("GET movie", radarr_cfg[i].name, kind, Len(body), DueMovies(body)))
                /\ log' = log \o r.log
                          \o (IF r.raised THEN << >>
                              ELSE <<LogEntry("info", "Found movie releases")>>)
                /\ movie_releases' =
                       IF r.raised THEN movie_releases
                       ELSE Append(movie_releases, Entry(radarr_cfg[i].name, r.value))
                /\ pc' = IF r.raised THEN "raised"
                         ELSE NextPc("radarr", "sonarr", Len(radarr_cfg))
    /\ i' = NextI(Len(radarr_cfg))
    /\ UNCHANGED <<env, tv_releases, message, success>>

\* One pass of the Radarr loop for an instance without url or api_key.
RadarrSkip ==
    /\ pc = "radarr"
    /\ ~Configured(radarr_cfg[i])
    /\ pc' = NextPc("radarr", "sonarr", Len(radarr_cfg))
    /\ i' = NextI(Len(radarr_cfg))
    /\ UNCHANGED <<env, movie_releases, tv_releases, message, success, log, calls>>

\* The ways a series lookup can end, given the ways a GET can end.
Lookups ==
    {o \in LookupOutcomes :
        \/ o = "ok" /\ "ok" \in net
        \/ o = "not_200" /\ "http_error" \in net
        \/ o = "transport_error" /\ "transport_error" \in net}

\* One outcome for each item the enrichment loop looks up, "none" for the rest.
LookupChoices(body) ==
    {f \in [1..Len(body) -> Lookups \cup {"none"}] :
        \A k \in 1..Len(body) : (f[k] = "none") <=> ~NeedsLookup(body[k])}

\* The GET /api/v3/series/{id} requests of the enrichment loop, in order.
RECURSIVE LookupCalls(_, _, _, _)
LookupCalls(name, body, lookups, k) ==
    IF k > Len(body) THEN << >>
    ELSE (IF NeedsLookup(body[k])
          THEN <<Call("GET series", name, lookups[k], 0, 0)>> ELSE << >>)
         \o LookupCalls(name, body, lookups, k + 1)

\* One pass of the Sonarr loop for a configured instance.
SonarrFetch ==
    /\ pc = "sonarr"
    /\ Configured(sonarr_cfg[i])
    /\ \E kind \in net, body \in Bodies(library.episodes) :
         /\ kind = "ok" \/ body = << >>
         /\ \E lookups \in LookupChoices(body) :
              \E r \in {get_todays_episodes([kind |-> kind, body |-> body],
                                            lookups, TodayStr, sys)} :
                  /\ calls' = Append(calls,
                         Call("GET calendar", sonarr_cfg[i].name, kind, Len(body),
                              DueEpisodes(body)))
                         \o LookupCalls(sonarr_cfg[i].name, body, lookups, 1)
                  /\ log' = log \o r.log
                            \o (IF r.raised THEN << >>
                                ELSE <<LogEntry("info", "Found episode releases")>>)
                  /\ tv_releases' =
                         IF r.raised THEN tv_releases
                         ELSE Append(tv_releases, Entry(sonarr_cfg[i].name, r.value))
                  /\ pc' = IF r.raised THEN "raised"
                           ELSE NextPc("sonarr", "notify", Len(sonarr_cfg))
    /\ i' = NextI(Len(sonarr_cfg))
    /\ UNCHANGED <<env, movie_releases, message, success>>

\* One pass of the Sonarr loop for an instance without url or api_key.
SonarrSkip ==
    /\ pc = "sonarr"
    /\ ~Configured(sonarr_cfg[i])
    /\ pc' = NextPc("sonarr", "notify", Len(sonarr_cfg))
    /\ i' = NextI(Len(sonarr_cfg))
    /\ UNCHANGED <<env, movie_releases, tv_releases, message, success, log, calls>>

\* The end of main(): send the notification and log how it went.
Notify ==
    /\ pc = "notify"
    /\ \E outcome \in hook :
         \E r \in {send_notification(movie_releases, tv_releases, TodayStr, sys, outcome)} :
             /\ calls' = Append(calls, Call("POST", "webhook", outcome.kind, outcome.status, 0))
             /\ message' = r.message
             /\ success' = IF r.raised THEN None ELSE Some(r.value)
             /\ log' = log \o r.log
                       \o (IF r.raised THEN << >>
                           ELSE IF r.value
                           THEN <<LogEntry("info", "Daily media release notification completed successfully!")>>
                           ELSE <<LogEntry("error", "Failed to send release notification.")>>)
             /\ pc' = IF r.raised THEN "raised" ELSE "done"
    /\ UNCHANGED <<env, i, movie_releases, tv_releases>>

Next ==
    \/ Start
    \/ RadarrFetch
    \/ RadarrSkip
    \/ SonarrFetch
    \/ SonarrSkip
    \/ Notify

Spec == Init /\ [][Next]_vars

\* A run over one library item: a reliable network and webhook, one movie
\* or one episode with any date strings, and a skipped first instance of
\* each kind.
InitWide ==
    /\ webhook = TRUE
    /\ radarr_cfg = <<Instance("Movies 4K", FALSE, FALSE), Instance("Movies", TRUE, TRUE)>>
    /\ sonarr_cfg = <<Instance("Anime", FALSE, FALSE), Instance("TV Shows", TRUE, TRUE)>>
    /\ today \in Days
    /\ sys \in SysOffsets
    /\ \/ \E m \in WideMovies : library = [movies |-> {m}, episodes |-> {}]
       \/ \E e \in WideEpisodes : library = [movies |-> {}, episodes |-> {e}]
    /\ net = {"ok"}
    /\ hook = {[kind |-> "response", status |-> 204]}
    /\ Init0

SpecWide == InitWide /\ [][Next]_vars

\* ------------------------------------------------------------------ properties
\* The items main() holds for an instance, << >> when it holds none.
ItemsOf(releases, name) ==
    IF \E k \in 1..Len(releases) : releases[k].name = name
    THEN releases[CHOOSE k \in 1..Len(releases) : releases[k].name = name].items
    ELSE << >>

Items(releases) ==
    UNION {{releases[k].items[j] : j \in 1..Len(releases[k].items)} :
              k \in 1..Len(releases)}

\* The shapes of text the specification's tolerant parser accepts.
Kinds(s) == [k \in 1..Len(s) |-> s[k].k]
IsBareDate(s) == Kinds(s) = <<"date">>
IsUtcStamp(s) == Kinds(s) = <<"date", "T", "time", "Z">>
IsNaiveStamp(s) == Kinds(s) = <<"date", "T", "time">>
WellFormed(s) == IsBareDate(s) \/ IsUtcStamp(s) \/ IsNaiveStamp(s)
Malformed(s) == s # Absent /\ ~WellFormed(s)

\* The calendar day, five hours west of UTC, of the UTC timestamp s.
DayInUtcMinus5(s) == IF s[3].v >= 5 * 60 THEN s[1].v ELSE s[1].v - 1

\* The raw text of s shows today's date.
ShowsToday(s) == \E k \in 1..Len(s) : s[k].k = "date" /\ s[k].v = today

\* The answered list requests, by operation.
ListCalls(op) == {k \in 1..Len(calls) : calls[k].op = op /\ calls[k].kind = "ok"}

\* C1: no item with monitored == false, movie or episode, is in the lists of
\* today's releases handed to the report composer.
C1_UnmonitoredNeverReported ==
    /\ \A m \in Items(movie_releases) : m.monitored
    /\ \A e \in Items(tv_releases) : e.monitored

\* C2: an episode whose airDateUtc is a UTC timestamp with a local calendar
\* day (UTC-5) equal to today is matched: every copy of it in an answered
\* calendar is in the instance's list of today's episodes.
C2_UtcAirDateMatchedByLocalDay ==
    \A k \in ListCalls("GET calendar") : \A e \in library.episodes :
        (/\ library.episodes = {e}
         /\ IsUtcStamp(e.airDateUtc)
         /\ DayInUtcMinus5(e.airDateUtc) = today)
        => Len(ItemsOf(tv_releases, calls[k].inst)) = calls[k].n

\* C2 witness: the episode of 2024-03-06T02:00:00Z, with no airDate, is in
\* today's episodes of 2024-03-05.
C2_Witness ==
    /\ today = 5
    /\ \E e \in Items(tv_releases) :
         /\ e.airDate = Absent
         /\ e.airDateUtc = <<DateTok(6), TTok, TimeTok(120), ZTok>>

\* C3: a monitored movie one of whose release fields is a UTC timestamp with
\* a local calendar day (UTC-5) equal to today is matched.
C3_MovieMatchedByLocalDay ==
    \A k \in ListCalls("GET movie") : \A m \in library.movies :
        (/\ library.movies = {m}
         /\ m.monitored
         /\ \E f \in 1..3 :
              /\ IsUtcStamp(MovieFields(m)[f])
              /\ DayInUtcMinus5(MovieFields(m)[f]) = today)
        => Len(ItemsOf(movie_releases, calls[k].inst)) = calls[k].n

\* C4: a monitored item all of whose present date fields are malformed is
\* matched exactly when one of them shows today's date, an item with no date
\* field is not matched, and no exception leaves the matcher.
C4_MalformedMatchBySubstring ==
    /\ pc # "raised"
    /\ \A k \in ListCalls("GET movie") : \A m \in library.movies :
         (/\ library.movies = {m}
          /\ m.monitored
          /\ \A f \in 1..3 : MovieFields(m)[f] = Absent \/ Malformed(MovieFields(m)[f]))
         => Len(ItemsOf(movie_releases, calls[k].inst)) =
              IF \E f \in 1..3 : ShowsToday(MovieFields(m)[f]) THEN calls[k].n ELSE 0
    /\ \A k \in ListCalls("GET calendar") : \A e \in library.episodes :
         (/\ library.episodes = {e}
          /\ e.monitored
          /\ e.airDate = Absent \/ Malformed(e.airDate)
          /\ e.airDateUtc = Absent \/ Malformed(e.airDateUtc))
         => Len(ItemsOf(tv_releases, calls[k].inst)) =
              IF ShowsToday(e.airDate) \/ ShowsToday(e.airDateUtc)
              THEN calls[k].n ELSE 0

\* C4 witness: a movie whose only date field is malformed text holding
\* today's date is in today's releases.
C4_Witness ==
    \E m \in Items(movie_releases) :
        /\ m.digitalRelease = <<JunkTok, DateTok(today)>>
        /\ m.physicalRelease = Absent
        /\ m.inCinemas = Absent

\* The instance whose section holds line p of the message.
SectionName(p) ==
    LET q == CHOOSE j \in 1..p :
                 /\ message[j].kind = "section"
                 /\ \A l \in j + 1..p : message[l].kind # "section"
    IN  message[q].name

\* The series title under which line p of the message is grouped.
SeriesName(p) ==
    LET q == CHOOSE j \in 1..p :
                 /\ message[j].kind = "series"
                 /\ \A l \in j + 1..p : message[l].kind # "series"
    IN  message[q].name

\* The item lines of the section of an instance.
ItemLines(name) ==
    {p \in 1..Len(message) :
        message[p].kind \in {"movie", "episode"} /\ SectionName(p) = name}

HasEntry(releases, name) == \E k \in 1..Len(releases) : releases[k].name = name

CallsOf(op, name) ==
    {k \in 1..Len(calls) : calls[k].op = op /\ calls[k].inst = name}

\* The lists of one kind of instance are as C5 says.
FetchesIsolated(cfg, releases, op, here) ==
    /\ \A k \in 1..Len(calls) :
         calls[k].op = op =>
           /\ HasEntry(releases, calls[k].inst)
           /\ calls[k].kind # "ok" => ItemsOf(releases, calls[k].inst) = << >>
           /\ calls[k].kind = "ok" =>
                Len(ItemsOf(releases, calls[k].inst)) >= calls[k].due
    /\ \A j \in 1..Len(cfg) :
         (Configured(cfg[j]) /\ (pc \in {"notify", "done"} \/ (pc = here /\ i > j)))
         => Cardinality(CallsOf(op, cfg[j].name)) = 1
    /\ pc = "done" =>
         \A k \in 1..Len(releases) :
            Cardinality(ItemLines(releases[k].name)) = Len(releases[k].items)

\* C5: with a webhook configured, a failed list or calendar fetch leaves an
\* empty list for its instance, no exception reaches main, every configured
\* instance is fetched and its matches are in the report, and the webhook is
\* posted to.
C5_FailedFetchIsolated ==
    webhook =>
      /\ pc # "raised"
      /\ FetchesIsolated(radarr_cfg, movie_releases, "GET movie", "radarr")
      /\ FetchesIsolated(sonarr_cfg, tv_releases, "GET calendar", "sonarr")
      /\ pc = "done" => Cardinality(CallsOf("POST", "webhook")) = 1

\* C5 witness: a run that ended after the movie list of one instance and a
\* series lookup failed, with the matches of another instance in the report.
C5_Witness ==
    /\ pc = "done"
    /\ \E k \in 1..Len(calls) : calls[k].op = "GET movie" /\ calls[k].kind # "ok"
    /\ \E k \in 1..Len(calls) : calls[k].op = "GET series" /\ calls[k].kind # "ok"
    /\ \E k \in 1..Len(tv_releases) :
         /\ tv_releases[k].items # << >>
         /\ ItemLines(tv_releases[k].name) # {}
    /\ CallsOf("POST", "webhook") # {}

\* The message holds a line of a kind.
HasLine(kind) == \E p \in 1..Len(message) : message[p].kind = kind

\* C6: the sentinel line is in the report exactly when every list of every
\* instance is empty, and the report is then the date header and the sentinel
\* with no section header.
C6_SentinelIffNothing ==
    success # None =>
      LET nothing == /\ \A k \in 1..Len(movie_releases) : movie_releases[k].items = << >>
                     /\ \A k \in 1..Len(tv_releases) : tv_releases[k].items = << >>
      IN  /\ HasLine("sentinel") <=> nothing
          /\ nothing => /\ ~HasLine("section")
                        /\ Len(message) = 2
                        /\ message[1].kind = "title"
                        /\ message[2].kind = "sentinel"

\* C6 witness: a report made of fetched but empty lists carries the sentinel.
C6_Witness ==
    /\ success # None
    /\ HasLine("sentinel")
    /\ movie_releases # << >>
    /\ tv_releases # << >>

\* The nested series title if there is one, else the flat seriesTitle if
\* present, else the placeholder.
SeriesTitleInOrder(e) ==
    IF e.series.title # None THEN e.series.title[1]
    ELSE IF e.seriesTitle # None THEN e.seriesTitle[1]
    ELSE UnknownSeries

\* C8: the title an episode is grouped under is the nested series title if
\* there is one, else the flat seriesTitle if present, else the placeholder,
\* and each use of the placeholder logs a warning.
C8_SeriesTitleResolution ==
    success # None =>
      /\ \A p \in 1..Len(message) :
           message[p].kind = "episode" =>
             SeriesName(p) =
               SeriesTitleInOrder(ItemsOf(tv_releases, SectionName(p))[message[p].src])
      /\ Cardinality({p \in 1..Len(message) :
                        message[p].kind = "episode" /\ SeriesName(p) = UnknownSeries})
         = Cardinality({k \in 1..Len(log) :
                          log[k] = LogEntry("warning", "Could not find series title")})

\* C9: the delivery step returns success exactly when the POST was answered
\* with a 2xx status, failure otherwise, and raises nothing.
C9_SuccessIffStatus2xx ==
    /\ pc # "raised"
    /\ \A k \in CallsOf("POST", "webhook") :
         success = Some(/\ calls[k].kind = "response"
                        /\ 200 <= calls[k].n
                        /\ calls[k].n <= 299)

\* C10: without a webhook URL the run ends with a logged error and issues no
\* request at all; an instance with an empty URL or API key is never
\* requested.
C10_NoWebhookNoRequests ==
    /\ ~webhook =>
         /\ calls = << >>
         /\ pc \in {"start", "done"}
         /\ pc = "done" =>
              /\ \E k \in 1..Len(log) : log[k].level = "error"
              /\ message = << >>
              /\ success = None
    /\ \A cfg \in {radarr_cfg, sonarr_cfg} : \A j \in 1..Len(cfg) :
         (~cfg[j].url \/ ~cfg[j].api_key) =>
           \A k \in 1..Len(calls) : calls[k].inst # cfg[j].name

\* C10 witness: a run without webhook URL has ended although instances are
\* configured, one of them with an empty API key.
C10_Witness ==
    /\ ~webhook
    /\ pc = "done"
    /\ radarr_cfg[1].url /\ radarr_cfg[1].api_key
    /\ sonarr_cfg[2].url /\ ~sonarr_cfg[2].api_key

\* The date field s, read as the specification's parser reads it and taken
\* to the zone five hours west of UTC, is today.
FieldIsToday(s) ==
    \/ IsBareDate(s) /\ s[1].v = today
    \/ IsUtcStamp(s) /\ DayInUtcMinus5(s) = today
    \/ IsNaiveStamp(s)
       /\ ((s[1].v * 1440) + s[3].v - sys - (5 * 60)) \div 1440 = today

\* The label of a movie whose digital, physical and cinema fields are today
\* or not (d, p, c), with `none` as the label when none is.
LabelFor(d, p, c, none) ==
    CASE d /\ p /\ c -> <<"Digital", ", ", "Physical", ", ", "Cinema", " Release">>
      [] d /\ p /\ ~c -> <<"Digital", ", ", "Physical", " Release">>
      [] d /\ ~p /\ c -> <<"Digital", ", ", "Cinema", " Release">>
      [] ~d /\ p /\ c -> <<"Physical", ", ", "Cinema", " Release">>
      [] d /\ ~p /\ ~c -> <<"Digital", " Release">>
      [] ~d /\ p /\ ~c -> <<"Physical", " Release">>
      [] ~d /\ ~p /\ c -> <<"Cinema", " Release">>
      [] OTHER -> none

\* Every movie of the report has one line, labelled by LabelFor.
MovieLinesLabelled(none) ==
    pc = "done" =>
      \A k \in 1..Len(movie_releases) : \A j \in 1..Len(movie_releases[k].items) :
        LET m == movie_releases[k].items[j]
            lines == {p \in ItemLines(movie_releases[k].name) : message[p].src = j}
        IN  /\ Cardinality(lines) = 1
            /\ \A p \in lines :
                 /\ message[p].kind = "movie"
                 /\ message[p].label =
                      LabelFor(FieldIsToday(m.digitalRelease),
                               FieldIsToday(m.physicalRelease),
                               FieldIsToday(m.inCinemas), none)

\* C7 as claimed: every movie of the report is on exactly one line, labelled
\* with the labels of its fields that are today, in the order digital,
\* physical, cinema, joined by ', ' and followed by ' Release'.
C7_LabelFromMatchingFields == MovieLinesLabelled(<<" Release">>)

\* C7 as amended: the same, except that a movie none of whose fields is today
\* once parsed and converted to the zone (it was matched by the substring
\* fallback or by the UTC date part) is labelled 'Released Today'.
C7_LabelOrReleasedToday == MovieLinesLabelled(<<"Released Today">>)

\* C7 witness: a movie whose digital and physical release are today is in the
\* report on a line labelled 'Digital, Physical Release'.
C7_Witness ==
    /\ pc = "done"
    /\ \E p \in 1..Len(message) :
         /\ message[p].kind = "movie"
         /\ message[p].label = <<"Digital", ", ", "Physical", " Release">>

\* The requests main() issues itself: list fetches, calendar fetches and the
\* POST, without the series lookups of the enrichment loop.
IsMainCall(c) == c.op \in {"GET movie", "GET calendar", "POST"}
MainCalls == SelectSeq(calls, IsMainCall)
Ops(s) == [k \in 1..Len(s) |-> <<s[k].op, s[k].inst>>]

\* The requests of a whole run, in the order of the configuration: one list
\* fetch per configured movie instance, one calendar fetch per configured
\* episode instance, one POST.
FetchesOf(op, cfg) ==
    LET on == SelectSeq(cfg, Configured)
    IN  [k \in 1..Len(on) |-> <<op, on[k].name>>]
Planned ==
    FetchesOf("GET movie", radarr_cfg) \o FetchesOf("GET calendar", sonarr_cfg)
        \o << <<"POST", "webhook">> >>

IsPrefix(s, t) == Len(s) <= Len(t) /\ SubSeq(t, 1, Len(s)) = s

\* C11: in a run with a configured webhook the requests are issued in the
\* order of the configuration, movie instances first, then episode instances
\* (each calendar fetch followed by its own series lookups), then the POST;
\* at the end of the run every one of them has been issued exactly once,
\* whether it failed or not.
C11_SequentialOnceEach ==
    webhook =>
      /\ IsPrefix(Ops(MainCalls), Planned)
      /\ pc = "done" => Ops(MainCalls) = Planned
      /\ pc # "done" => \A k \in 1..Len(calls) : calls[k].op # "POST"
      /\ \A k \in 1..Len(calls) :
           calls[k].op = "GET series" =>
             /\ k > 1
             /\ calls[k - 1].op \in {"GET calendar", "GET series"}
             /\ calls[k - 1].inst = calls[k].inst

\* C11 witness: a finished run with all four instances configured, in which
\* the first movie fetch, the first calendar fetch and the POST failed, has
\* issued five requests of its own.
C11_Witness ==
    /\ webhook
    /\ pc = "done"
    /\ Len(MainCalls) = 5
    /\ MainCalls[1].kind # "ok"
    /\ MainCalls[3].kind # "ok"
    /\ MainCalls[4].op = "GET calendar" /\ MainCalls[4].inst = "TV Shows"
    /\ MainCalls[5].kind = "transport_error"

\* The calendar day, five hours west of UTC, of a date field the parser
\* accepts: a UTC timestamp, or a timestamp or a date (midnight) without
\* zone, which datetime reads in the zone of the host.
LocalDay(s) ==
    IF IsUtcStamp(s) THEN DayInUtcMinus5(s)
    ELSE ((s[1].v * 1440) + (IF IsNaiveStamp(s) THEN s[3].v ELSE 0)
          - sys - (5 * 60)) \div 1440

\* C12: an episode with no airDate whose airDateUtc parses to a calendar day
\* of the target timezone other than today is never in today's episodes (an
\* episode is in them only if one of its date fields denotes today there).
C12_OnlyIfFieldDenotesToday ==
    \A e \in Items(tv_releases) :
        (e.airDate = Absent /\ WellFormed(e.airDateUtc))
        => LocalDay(e.airDateUtc) = today

====
